---- MODULE Spec2Model ----
(***************************************************************************)
(* State-machine model of the GrundigPN200 serial driver                   *)
(* (src/Grundig_PN200.py).  One object of the class is modelled: its       *)
(* attributes are the variables, each public method is one action, and the *)
(* serial transports (pyserial Serial objects) are the driver's            *)
(* environment, modelled by their open/closed status and by the I/O calls  *)
(* the driver makes on them.                                               *)
(*                                                                         *)
(* Numbers are carried in thousandths (milli-volt / milli-ampere) so that  *)
(* 5.0 is 5000 and 0.01 is 10; FloatStr renders them the way Python's      *)
(* str(float(x)) does for such values.                                     *)
(***************************************************************************)
EXTENDS Integers, Sequences, FiniteSets, TLC

\* ---------------------------------------------------------------- bounds
\* Number of Serial objects that can be opened successfully in one run.
MaxTransports == 2

\* ------------------------------------------------------ program constants
\* self.serial = None: the "no transport" handle.
None == 0
\* time.sleep(0.1): settle delay in milliseconds.
SettleDelayMs == 100
\* serial.Serial(..., timeout=1): read timeout in seconds.
ReadTimeout == 1

\* ------------------------------------------------------------ input sets
\* An optional float: Python None, or a number (in thousandths).
NoneVal == [set |-> FALSE, milli |-> 0]
Num(m) == [set |-> TRUE, milli |-> m]
\* Arguments offered to set_channel_*: voltage None, 5.0, 12.0 and current
\* None, 0.01 (the class defaults 0.0 come from Init).
VoltageArgs == {NoneVal, Num(5000), Num(12000)}
CurrentArgs == {NoneVal, Num(10)}
\* Command texts offered to a direct send_cmd call (docstring examples).
Cmds == {"SEL_A", "VSET 5.0"}
\* Lines the instrument may answer, as the characters readline() returns;
\* the empty line is a read timeout.
RawLines == { <<>>, <<" ", "O", "K", "\r", "\n">> }
\* Return values: Python None or a str (sequence of characters).
NoneRet == [kind |-> "None", val |-> <<>>]
Str(s) == [kind |-> "str", val |-> s]

VARIABLES
    serial,             \* self.serial: None or the id of a Serial object
    ports,              \* status of every Serial object: unopened/open/closed
    channel_a_voltage, channel_a_current, channel_a_state,
    channel_b_voltage, channel_b_current, channel_b_state,
    lastOp,             \* the method called last, with its arguments
    result,             \* "ok" or the exception that left the method
    ret,                \* the value the method returned to its caller
    response,           \* the value the inner send_cmd returned, if it ran
    io,                 \* I/O calls the method made on transports, in order
    replaced,           \* Serial objects no longer referenced by self.serial
    trail               \* on / set / off call sequence in progress

vars == << serial, ports, channel_a_voltage, channel_a_current, channel_a_state,
           channel_b_voltage, channel_b_current, channel_b_state,
           lastOp, result, ret, response, io, replaced, trail >>

chanA == << channel_a_voltage, channel_a_current, channel_a_state >>
chanB == << channel_b_voltage, channel_b_current, channel_b_state >>
link == << serial, ports, replaced >>

\* ------------------------------------------------------- text conversion
Digit(d) ==
    CASE d = 0 -> "0" [] d = 1 -> "1" [] d = 2 -> "2" [] d = 3 -> "3"
      [] d = 4 -> "4" [] d = 5 -> "5" [] d = 6 -> "6" [] d = 7 -> "7"
      [] d = 8 -> "8" [] d = 9 -> "9"

RECURSIVE NatStr(_)
NatStr(n) == IF n < 10 THEN Digit(n) ELSE NatStr(n \div 10) \o Digit(n % 10)

\* The fraction digits of f thousandths, shortest form, at least one digit.
FracStr(f) ==
    LET d1 == f \div 100
        d2 == (f \div 10) % 10
        d3 == f % 10
    IN  IF d3 # 0 THEN Digit(d1) \o Digit(d2) \o Digit(d3)
        ELSE IF d2 # 0 THEN Digit(d1) \o Digit(d2)
        ELSE Digit(d1)

\* f'{float(x)}' for x = m/1000, m >= 0: "5.0", "0.01", "12.0".
FloatStr(m) == NatStr(m \div 1000) \o "." \o FracStr(m % 1000)

\* sep.join(parts)
RECURSIVE Join(_, _)
Join(sep, parts) ==
    IF Len(parts) = 0 THEN ""
    ELSE IF Len(parts) = 1 THEN parts[1]
    ELSE parts[1] \o sep \o Join(sep, Tail(parts))

\* Characters str.strip() removes.
Whitespace == {" ", "\t", "\n", "\r", "\f"}

RECURSIVE LStrip(_)
LStrip(s) ==
    IF Len(s) > 0 /\ Head(s) \in Whitespace THEN LStrip(Tail(s)) ELSE s

RECURSIVE RStrip(_)
RStrip(s) ==
    IF Len(s) > 0 /\ s[Len(s)] \in Whitespace
    THEN RStrip(SubSeq(s, 1, Len(s) - 1)) ELSE s

\* bytes.decode('ascii').strip() on an ASCII line.
Strip(s) == RStrip(LStrip(s))

\* --------------------------------------------------------- transport I/O
\* One call made on a Serial object: kind, the object, the bytes written
\* (as text) and a number (sleep milliseconds, open timeout).
Ev(kind, to, data, n) == [kind |-> kind, to |-> to, data |-> data, n |-> n]

\* `not self.serial`: only None is falsy; a Serial object is truthy whether
\* its port is open or closed.
Falsy(s) == s = None

\* The outcome of a method body: how it ended, what it returned and the
\* I/O it performed.
Eff(res, rv, evs) == [result |-> res, ret |-> rv, io |-> evs]

\* Serial.write(data) on object s: pyserial raises a SerialException
\* (port not open) when the port is closed and transmits nothing.
Write(s, p, data) ==
    IF p[s] = "open"
    THEN Eff("ok", NoneRet, << Ev("write", s, data, 0) >>)
    ELSE Eff("SerialException", NoneRet, << Ev("write", s, data, 0) >>)

\* ------------------------------------------------------------ method bodies
send_cmd(s, p, cmd, raw) ==
    IF Falsy(s) THEN Eff("RuntimeError", NoneRet, << >>)
    ELSE LET w == Write(s, p, cmd \o "\n")
         IN  IF w.result # "ok" THEN w
             ELSE Eff("ok", Str(Strip(raw)),
                      w.io \o << Ev("sleep", None, "", SettleDelayMs),
                                 Ev("readline", s, "", 0) >>)

\* The control bytes b'\x09' / b'\x01' are carried by their escaped text.
set_remote(s, p) ==
    IF Falsy(s) THEN Eff("RuntimeError", NoneRet, << >>)
    ELSE Write(s, p, "\\x09")

set_local_unguarded(s, p) ==
    Eff("ok", NoneRet, << Ev("write", s, "\\x01", 0) >>)

set_local(s, p) ==
    IF Falsy(s) THEN Eff("RuntimeError", NoneRet, << >>)
    ELSE Write(s, p, "\\x01")

\* The body has no return statement: the caller gets None.
set_independent_mode(s, p, raw) ==
    LET r == send_cmd(s, p, "OPER_IND", raw)
    IN  Eff(r.result, NoneRet, r.io)

\* Bug variant: a truthiness test (`if self.channel_a_voltage:`) instead of
\* `is not None`, so 0.0 counts as unset.
update_chnel_a_truthy(v, c, st, s, p, raw) ==
    IF ~st THEN send_cmd(s, p, "SEL_A; VSET 0;", raw)
    ELSE LET p0 == << "SEL_A" >>
             p1 == IF v.set /\ v.milli # 0
                   THEN Append(p0, "VSET " \o FloatStr(v.milli)) ELSE p0
             p2 == IF c.set /\ c.milli # 0
                   THEN Append(p1, "ISET " \o FloatStr(c.milli)) ELSE p1
             cmd == IF Len(p2) = 1 THEN "SEL_A;" ELSE Join("; ", p2) \o ";"
         IN  send_cmd(s, p, cmd, raw)

update_chnel_a(v, c, st, s, p, raw) ==
    IF ~st THEN send_cmd(s, p, "SEL_A; VSET 0;", raw)
    ELSE LET p0 == << "SEL_A" >>
             p1 == IF v.set
                   THEN Append(p0, "VSET " \o FloatStr(v.milli)) ELSE p0
             p2 == IF c.set
                   THEN Append(p1, "ISET " \o FloatStr(c.milli)) ELSE p1
             cmd == IF Len(p2) = 1 THEN "SEL_A;" ELSE Join("; ", p2) \o ";"
         IN  send_cmd(s, p, cmd, raw)

\* Bug variant: the `if not self.channel_b_state` branch is missing.
update_chnel_b_no_off_branch(v, c, st, s, p, raw) ==
    LET p0 == << "SEL_B" >>
        p1 == IF v.set
              THEN Append(p0, "VSET " \o FloatStr(v.milli)) ELSE p0
        p2 == IF c.set
              THEN Append(p1, "ISET " \o FloatStr(c.milli)) ELSE p1
        cmd == IF Len(p2) = 1 THEN "SEL_B;" ELSE Join("; ", p2) \o ";"
    IN  send_cmd(s, p, cmd, raw)

update_chnel_b(v, c, st, s, p, raw) ==
    IF ~st THEN send_cmd(s, p, "SEL_B; VSET 0;", raw)
    ELSE LET p0 == << "SEL_B" >>
             p1 == IF v.set
                   THEN Append(p0, "VSET " \o FloatStr(v.milli)) ELSE p0
             p2 == IF c.set
                   THEN Append(p1, "ISET " \o FloatStr(c.milli)) ELSE p1
             cmd == IF Len(p2) = 1 THEN "SEL_B;" ELSE Join("; ", p2) \o ";"
         IN  send_cmd(s, p, cmd, raw)

\* The Serial object a successful serial.Serial(...) call creates: the first
\* one not yet used.
NewId(p) == CHOOSE i \in DOMAIN p :
                p[i] = "unopened" /\ \A j \in DOMAIN p : j < i => p[j] # "unopened"

\* What connect_to leaves behind: how it ended, its I/O, and the new values
\* of self.serial, the port statuses and the set of dropped Serial objects.
Conn(res, evs, s, p, rep) ==
    [result |-> res, io |-> evs, serial |-> s, ports |-> p, replaced |-> rep]

\* self.serial.close() inside try/except: the call made, and the statuses
\* after it.  A close that raises may leave the port open.
CloseEv(s, closeRaises) ==
    IF Falsy(s) THEN << >>
    ELSE << Ev("close", s, IF closeRaises THEN "raised" ELSE "", 0) >>

AfterClose(s, p, closeRaises, staysOpen) ==
    IF ~Falsy(s) /\ p[s] = "open" /\ ~(closeRaises /\ staysOpen)
    THEN [p EXCEPT ![s] = "closed"] ELSE p

\* ser = serial.Serial(comport, baudrate, timeout=1); self.serial = ser
OpenNew(s, p, rep, pre, openOk) ==
    IF openOk
    THEN Conn("ok", pre \o << Ev("open", NewId(p), "", ReadTimeout) >>,
              NewId(p), [p EXCEPT ![NewId(p)] = "open"],
              IF Falsy(s) THEN rep ELSE rep \cup {s})
    ELSE Conn("SerialException", pre \o << Ev("open", None, "", ReadTimeout) >>,
              s, p, rep)

\* Bug variant: no try/except around close(), so its error leaves connect_to.
connect_to_close_propagates(s, p, rep, openOk, closeRaises, staysOpen) ==
    IF ~Falsy(s) /\ closeRaises
    THEN Conn("SerialException", CloseEv(s, closeRaises), s,
              AfterClose(s, p, closeRaises, staysOpen), rep)
    ELSE OpenNew(s, AfterClose(s, p, closeRaises, staysOpen), rep,
                 CloseEv(s, closeRaises), openOk)

connect_to(s, p, rep, openOk, closeRaises, staysOpen) ==
    OpenNew(s, AfterClose(s, p, closeRaises, staysOpen), rep,
            CloseEv(s, closeRaises), openOk)

\* ------------------------------------------------------------------ state
Op(name, v, c, cmd) == [name |-> name, v |-> v, c |-> c, cmd |-> cmd]

\* A fresh object as object.__new__ leaves it: the class attributes (lines
\* 19-26) and no method run yet.  __init__ is the action GrundigPN200_init;
\* the other methods are callable on the object whether or not it ran.
Init ==
    /\ serial = None
    /\ ports = [i \in 1..MaxTransports |-> "unopened"]
    /\ channel_a_voltage = Num(0)
    /\ channel_a_current = Num(0)
    /\ channel_a_state = FALSE
    /\ channel_b_voltage = Num(0)
    /\ channel_b_current = Num(0)
    /\ channel_b_state = FALSE
    /\ lastOp = Op("new", NoneVal, NoneVal, "")
    /\ result = "ok"
    /\ ret = NoneRet
    /\ response = NoneRet
    /\ io = << >>
    /\ replaced = {}
    /\ trail = "idle"

\* Progress of the call sequence channel_x_on, set_channel_x*, channel_x_off
\* on a session whose calls succeed; any other call ends the sequence.
TrailAfter(name, res) ==
    IF res # "ok" THEN "idle"
    ELSE CASE name = "channel_a_on" -> "a_on"
           [] name = "channel_b_on" -> "b_on"
           [] name = "set_channel_a" /\ trail \in {"a_on", "a_set"} -> "a_set"
           [] name = "set_channel_b" /\ trail \in {"b_on", "b_set"} -> "b_set"
           [] name = "channel_a_off" /\ trail = "a_on" -> "a_off"
           [] name = "channel_a_off" /\ trail = "a_set" -> "a_set_off"
           [] name = "channel_b_off" /\ trail = "b_on" -> "b_off"
           [] name = "channel_b_off" /\ trail = "b_set" -> "b_set_off"
           [] OTHER -> "idle"

\* The caller's view of a finished call.
Finish(op, e, rv, resp) ==
    /\ lastOp' = op
    /\ result' = e.result
    /\ ret' = rv
    /\ response' = resp
    /\ io' = e.io
    /\ trail' = TrailAfter(op.name, e.result)

\* ---------------------------------------------------------------- actions
Call_connect_to ==
    /\ \E i \in DOMAIN ports : ports[i] = "unopened"
    /\ \E openOk, closeRaises, staysOpen \in BOOLEAN :
         LET k == connect_to(serial, ports, replaced, openOk, closeRaises, staysOpen)
         IN  /\ serial' = k.serial
             /\ ports' = k.ports
             /\ replaced' = k.replaced
             /\ Finish(Op("connect_to", NoneVal, NoneVal, ""), k, NoneRet, NoneRet)
    /\ UNCHANGED << chanA, chanB >>

\* __init__ on the fresh object: set_remote(), set_independent_mode(),
\* connect_to(), in that order; an exception ends it where it is raised.
GrundigPN200_init ==
    /\ lastOp.name = "new"
    /\ \E raw \in RawLines, openOk, closeRaises, staysOpen \in BOOLEAN :
         LET r == set_remote(serial, ports)
             m == set_independent_mode(serial, ports, raw)
             k == connect_to(serial, ports, replaced, openOk, closeRaises, staysOpen)
             op == Op("__init__", NoneVal, NoneVal, "")
         IN  IF r.result # "ok"
             THEN Finish(op, r, NoneRet, NoneRet) /\ UNCHANGED link
             ELSE IF m.result # "ok"
             THEN Finish(op, Eff(m.result, NoneRet, r.io \o m.io), NoneRet, NoneRet)
                  /\ UNCHANGED link
             ELSE /\ serial' = k.serial
                  /\ ports' = k.ports
                  /\ replaced' = k.replaced
                  /\ Finish(op, Eff(k.result, NoneRet, r.io \o m.io \o k.io),
                            NoneRet, NoneRet)
    /\ UNCHANGED << chanA, chanB >>

Call_send_cmd ==
    /\ \E cmd \in Cmds, raw \in RawLines :
         LET e == send_cmd(serial, ports, cmd, raw)
         IN  Finish(Op("send_cmd", NoneVal, NoneVal, cmd), e, e.ret, e.ret)
    /\ UNCHANGED << chanA, chanB, link >>

Call_set_remote ==
    /\ LET e == set_remote(serial, ports)
       IN  Finish(Op("set_remote", NoneVal, NoneVal, ""), e, NoneRet, NoneRet)
    /\ UNCHANGED << chanA, chanB, link >>

Call_set_local ==
    /\ LET e == set_local(serial, ports)
       IN  Finish(Op("set_local", NoneVal, NoneVal, ""), e, NoneRet, NoneRet)
    /\ UNCHANGED << chanA, chanB, link >>

Call_set_independent_mode ==
    /\ \E raw \in RawLines :
         LET r == send_cmd(serial, ports, "OPER_IND", raw)
             e == set_independent_mode(serial, ports, raw)
         IN  Finish(Op("set_independent_mode", NoneVal, NoneVal, ""), e, e.ret, r.ret)
    /\ UNCHANGED << chanA, chanB, link >>

Call_update_chnel_a ==
    /\ \E raw \in RawLines :
         LET e == update_chnel_a(channel_a_voltage, channel_a_current,
                                 channel_a_state, serial, ports, raw)
         IN  Finish(Op("update_chnel_a", NoneVal, NoneVal, ""), e, e.ret, e.ret)
    /\ UNCHANGED << chanA, chanB, link >>

Call_update_chnel_b ==
    /\ \E raw \in RawLines :
         LET e == update_chnel_b(channel_b_voltage, channel_b_current,
                                 channel_b_state, serial, ports, raw)
         IN  Finish(Op("update_chnel_b", NoneVal, NoneVal, ""), e, e.ret, e.ret)
    /\ UNCHANGED << chanA, chanB, link >>

\* Bug variant (copy-paste): set_channel_b stores into channel A's fields.
set_channel_b_stores_in_a ==
    /\ \E v \in VoltageArgs, c \in CurrentArgs, raw \in RawLines :
         /\ channel_a_voltage' = v
         /\ channel_a_current' = c
         /\ LET e == update_chnel_b(channel_b_voltage, channel_b_current,
                                    channel_b_state, serial, ports, raw)
            IN  Finish(Op("set_channel_b", v, c, ""), e, e.ret, e.ret)
    /\ UNCHANGED << channel_a_state, chanB, link >>

set_channel_a ==
    /\ \E v \in VoltageArgs, c \in CurrentArgs, raw \in RawLines :
         /\ channel_a_voltage' = v
         /\ channel_a_current' = c
         /\ LET e == update_chnel_a(v, c, channel_a_state, serial, ports, raw)
            IN  Finish(Op("set_channel_a", v, c, ""), e, e.ret, e.ret)
    /\ UNCHANGED << channel_a_state, chanB, link >>

set_channel_b ==
    /\ \E v \in VoltageArgs, c \in CurrentArgs, raw \in RawLines :
         /\ channel_b_voltage' = v
         /\ channel_b_current' = c
         /\ LET e == update_chnel_b(v, c, channel_b_state, serial, ports, raw)
            IN  Finish(Op("set_channel_b", v, c, ""), e, e.ret, e.ret)
    /\ UNCHANGED << channel_b_state, chanA, link >>

channel_a_on ==
    /\ channel_a_state' = TRUE
    /\ \E raw \in RawLines :
         LET e == update_chnel_a(channel_a_voltage, channel_a_current, TRUE,
                                 serial, ports, raw)
         IN  Finish(Op("channel_a_on", NoneVal, NoneVal, ""), e, e.ret, e.ret)
    /\ UNCHANGED << channel_a_voltage, channel_a_current, chanB, link >>

\* Bug variant: the flag is not cleared before the settings are applied.
channel_a_off_keeps_flag ==
    /\ \E raw \in RawLines :
         LET e == update_chnel_a(channel_a_voltage, channel_a_current,
                                 channel_a_state, serial, ports, raw)
         IN  Finish(Op("channel_a_off", NoneVal, NoneVal, ""), e, e.ret, e.ret)
    /\ UNCHANGED << chanA, chanB, link >>

channel_a_off ==
    /\ channel_a_state' = FALSE
    /\ \E raw \in RawLines :
         LET e == update_chnel_a(channel_a_voltage, channel_a_current, FALSE,
                                 serial, ports, raw)
         IN  Finish(Op("channel_a_off", NoneVal, NoneVal, ""), e, e.ret, e.ret)
    /\ UNCHANGED << channel_a_voltage, channel_a_current, chanB, link >>

channel_b_on ==
    /\ channel_b_state' = TRUE
    /\ \E raw \in RawLines :
         LET e == update_chnel_b(channel_b_voltage, channel_b_current, TRUE,
                                 serial, ports, raw)
         IN  Finish(Op("channel_b_on", NoneVal, NoneVal, ""), e, e.ret, e.ret)
    /\ UNCHANGED << channel_b_voltage, channel_b_current, chanA, link >>

channel_b_off ==
    /\ channel_b_state' = FALSE
    /\ \E raw \in RawLines :
         LET e == update_chnel_b(channel_b_voltage, channel_b_current, FALSE,
                                 serial, ports, raw)
         IN  Finish(Op("channel_b_off", NoneVal, NoneVal, ""), e, e.ret, e.ret)
    /\ UNCHANGED << channel_b_voltage, channel_b_current, chanA, link >>

Next ==
    \/ GrundigPN200_init
    \/ Call_connect_to
    \/ Call_send_cmd
    \/ Call_set_remote
    \/ Call_set_local
    \/ Call_set_independent_mode
    \/ Call_update_chnel_a
    \/ Call_update_chnel_b
    \/ set_channel_a
    \/ set_channel_b
    \/ channel_a_on
    \/ channel_a_off
    \/ channel_b_on
    \/ channel_b_off

Spec == Init /\ [][Next]_vars

\* ----------------------------------------------------------------- claims
\* The write calls among the I/O of the last method call.
Writes(evs) == SelectSeq(evs, LAMBDA e : e.kind = "write")

\* Methods that end in update_chnel_a / update_chnel_b.
AppliesA == {"set_channel_a", "channel_a_on", "channel_a_off", "update_chnel_a"}
AppliesB == {"set_channel_b", "channel_b_on", "channel_b_off", "update_chnel_b"}
\* Methods that change stored channel state before applying it.
ChannelOps == {"set_channel_a", "channel_a_on", "channel_a_off",
               "set_channel_b", "channel_b_on", "channel_b_off"}

\* The command text for an enabled channel, by which values are set.
OnLine(sel, v, c) ==
    CASE ~v.set /\ ~c.set -> sel \o ";\n"
      [] v.set /\ ~c.set  -> sel \o "; VSET " \o FloatStr(v.milli) \o ";\n"
      [] ~v.set /\ c.set  -> sel \o "; ISET " \o FloatStr(c.milli) \o ";\n"
      [] v.set /\ c.set   -> sel \o "; VSET " \o FloatStr(v.milli)
                                 \o "; ISET " \o FloatStr(c.milli) \o ";\n"

\* C1: whenever a channel's enabled flag is false, applying the channel
\* (channel_off, set_channel on an off channel, update_chnel) writes nothing
\* but the line "SEL_<id>; VSET 0;\n", whatever voltage and current are
\* stored, and writes exactly that one line when the call succeeds; no
\* stored VSET value and no ISET is written for a channel that is off.
C1_OffSendsVsetZero ==
    /\ (lastOp.name \in AppliesA /\ ~channel_a_state) =>
          /\ \A i \in DOMAIN io :
                io[i].kind = "write" => io[i] = Ev("write", serial, "SEL_A; VSET 0;\n", 0)
          /\ Len(Writes(io)) <= 1
          /\ result = "ok" => Len(Writes(io)) = 1
    /\ (lastOp.name \in AppliesB /\ ~channel_b_state) =>
          /\ \A i \in DOMAIN io :
                io[i].kind = "write" => io[i] = Ev("write", serial, "SEL_B; VSET 0;\n", 0)
          /\ Len(Writes(io)) <= 1
          /\ result = "ok" => Len(Writes(io)) = 1

\* C1 witness: set_channel_b succeeded on channel B while it is off and
\* holds a non-zero stored voltage and a stored current.
C1_Witness ==
    /\ lastOp.name = "set_channel_b"
    /\ result = "ok"
    /\ ~channel_b_state
    /\ channel_b_voltage = Num(12000)
    /\ channel_b_current = Num(10)

\* C2: for an enabled channel on a session with a transport, the one line
\* written is "SEL_<id>;" when voltage and current are both unset,
\* "SEL_<id>; VSET v;" / "SEL_<id>; ISET c;" when one is set and
\* "SEL_<id>; VSET v; ISET c;" when both are (VSET first), each followed by
\* one newline; 5.0 / 0.01 on A gives "SEL_A; VSET 5.0; ISET 0.01;\n", 12.0
\* alone on B gives "SEL_B; VSET 12.0;\n", nothing set on B gives "SEL_B;\n".
C2_EnabledCommandText ==
    /\ (lastOp.name \in AppliesA /\ channel_a_state /\ serial # None) =>
          Writes(io) = << Ev("write", serial,
                             OnLine("SEL_A", channel_a_voltage, channel_a_current), 0) >>
    /\ (lastOp.name \in AppliesB /\ channel_b_state /\ serial # None) =>
          Writes(io) = << Ev("write", serial,
                             OnLine("SEL_B", channel_b_voltage, channel_b_current), 0) >>
    /\ ( /\ lastOp.name \in AppliesA /\ channel_a_state /\ serial # None
         /\ channel_a_voltage = Num(5000) /\ channel_a_current = Num(10) ) =>
          io[1].data = "SEL_A; VSET 5.0; ISET 0.01;\n"
    /\ ( /\ lastOp.name \in AppliesB /\ channel_b_state /\ serial # None
         /\ channel_b_voltage = Num(12000) /\ channel_b_current = NoneVal ) =>
          io[1].data = "SEL_B; VSET 12.0;\n"
    /\ ( /\ lastOp.name \in AppliesB /\ channel_b_state /\ serial # None
         /\ channel_b_voltage = NoneVal /\ channel_b_current = NoneVal ) =>
          io[1].data = "SEL_B;\n"
    /\ ( /\ lastOp.name \in AppliesA /\ channel_a_state /\ serial # None
         /\ channel_a_voltage = NoneVal /\ channel_a_current = Num(10) ) =>
          io[1].data = "SEL_A; ISET 0.01;\n"

\* C2 witness: set_channel_a(5.0, 0.01) succeeded on enabled channel A.
C2_Witness ==
    /\ lastOp = Op("set_channel_a", Num(5000), Num(10), "")
    /\ channel_a_state
    /\ result = "ok"
    /\ io[1].data = "SEL_A; VSET 5.0; ISET 0.01;\n"

\* C3: on a session without a transport, send_cmd, set_remote and set_local
\* fail with RuntimeError (NotConnectedError) and make no write and no read.
C3_NotConnectedFailsFast ==
    (serial = None /\ lastOp.name \in {"send_cmd", "set_remote", "set_local"}) =>
        (result = "RuntimeError" /\ io = << >>)

\* C3 witness: set_local was called on a session that has no transport.
C3_Witness ==
    /\ serial = None
    /\ lastOp.name = "set_local"
    /\ result = "RuntimeError"

\* C4: constructing the driver opens the transport first and then sets
\* remote and independent mode, so construction succeeds and leaves the
\* opened transport as the active link.
C4_ConstructOpensFirst ==
    lastOp.name = "__init__" =>
        /\ result = "ok"
        /\ serial # None
        /\ ports[serial] = "open"
        /\ io[1].kind = "open"

\* C5: when connect_to runs while a transport is active, the old transport
\* is closed before the new one is opened, an error raised by that close
\* does not leave connect_to (the open is still attempted), after a
\* successful open only the new transport is the active one, and no write
\* ever goes to a transport that was replaced.
C5_ReconnectClosesOldFirst ==
    [][ /\ (lastOp'.name = "connect_to" /\ serial # None) =>
              /\ Len(io') = 2
              /\ io'[1].kind = "close" /\ io'[1].to = serial
              /\ io'[2].kind = "open"
              /\ result' = "ok" =>
                    /\ serial' # serial
                    /\ serial' = io'[2].to
                    /\ ports'[serial'] = "open"
                    /\ serial \in replaced'
                    /\ serial' \notin replaced'
              /\ result' # "ok" => serial' = serial
        /\ \A i \in DOMAIN io' :
              io'[i].kind = "write" => io'[i].to \notin replaced'
      ]_vars

\* C5 witness: a reconnect whose close raised and whose open succeeded, so
\* that transport 2 replaced transport 1.
C5_Witness ==
    /\ lastOp.name = "connect_to"
    /\ result = "ok"
    /\ Len(io) = 2
    /\ io[1] = Ev("close", 1, "raised", 0)
    /\ serial = 2
    /\ replaced = {1}

\* C6: every channel-mutating operation either runs on a live, open
\* transport or fails with RuntimeError (NotConnectedError) without
\* attempting a write; it never writes to a transport that has been closed.
C6_ChannelOpsNeedLiveTransport ==
    lastOp.name \in ChannelOps =>
        \/ (result = "ok" /\ serial # None /\ ports[serial] = "open")
        \/ (result = "RuntimeError" /\ io = << >>)

\* C7: after channel_on(id), any number of set_channel(id, v, c) and then
\* channel_off(id) on a connected session, the last command written is
\* "SEL_<id>; VSET 0;" and the channel's enabled flag is false.
C7_OnThenOffEndsAtZero ==
    /\ trail \in {"a_off", "a_set_off"} =>
          /\ lastOp.name = "channel_a_off"
          /\ ~channel_a_state
          /\ Writes(io) = << Ev("write", serial, "SEL_A; VSET 0;\n", 0) >>
          /\ io[Len(io)].kind = "readline"
    /\ trail \in {"b_off", "b_set_off"} =>
          /\ lastOp.name = "channel_b_off"
          /\ ~channel_b_state
          /\ Writes(io) = << Ev("write", serial, "SEL_B; VSET 0;\n", 0) >>
          /\ io[Len(io)].kind = "readline"

\* C7 witness: channel_a_on, at least one set_channel_a (the last one
\* leaving 12.0 V and a stored current) and channel_a_off have run.
C7_Witness ==
    /\ trail = "a_set_off"
    /\ channel_a_voltage = Num(12000)
    /\ channel_a_current = Num(10)

\* C8: set_channel_x(voltage, current) stores exactly the passed values
\* (None included) in that channel's voltage and current and leaves its
\* enabled flag and the other channel's three fields unchanged; an enabled
\* flag changes only in channel_x_on / channel_x_off of its own channel.
C8_SetChannelFrame ==
    [][ /\ lastOp'.name = "set_channel_a" =>
              /\ channel_a_voltage' = lastOp'.v
              /\ channel_a_current' = lastOp'.c
              /\ UNCHANGED << channel_a_state, chanB >>
        /\ lastOp'.name = "set_channel_b" =>
              /\ channel_b_voltage' = lastOp'.v
              /\ channel_b_current' = lastOp'.c
              /\ UNCHANGED << channel_b_state, chanA >>
        /\ channel_a_state' # channel_a_state =>
              lastOp'.name \in {"channel_a_on", "channel_a_off"}
        /\ channel_b_state' # channel_b_state =>
              lastOp'.name \in {"channel_b_on", "channel_b_off"}
      ]_vars

\* C8 witness: set_channel_b(None, None) ran on enabled channel B while
\* channel A is enabled and holds 5.0 V / 0.01 A.
C8_Witness ==
    /\ lastOp = Op("set_channel_b", NoneVal, NoneVal, "")
    /\ channel_b_voltage = NoneVal
    /\ channel_b_current = NoneVal
    /\ channel_b_state
    /\ channel_a_state
    /\ channel_a_voltage = Num(5000)
    /\ channel_a_current = Num(10)

\* C9: on a connected session set_independent_mode writes exactly
\* "OPER_IND\n" through send_cmd and returns to its caller the response
\* string send_cmd returned.
C9_IndependentModeReturnsResponse ==
    (lastOp.name = "set_independent_mode" /\ result = "ok") =>
        /\ Writes(io) = << Ev("write", serial, "OPER_IND\n", 0) >>
        /\ ret = response

\* C10: a channel_on, channel_off or set_channel call that fails with
\* RuntimeError on a session without a transport leaves the stored channel
\* state (voltage, current, enabled flag) as it was before the call.
C10_FailedCallKeepsState ==
    [][ (serial = None /\ lastOp'.name \in ChannelOps /\ result' = "RuntimeError")
            => UNCHANGED << chanA, chanB >> ]_vars

====
